---- MODULE Spec2Model ----
(***************************************************************************)
(* Model of proxy.PUT (src/proxy/PUT.go): the format-translating PUT       *)
(* forwarder of arbor.  One call of PUT is modelled as a sequence of       *)
(* steps (read body, close, decode, build request, client.Do, respond).    *)
(* Byte strings are sequences of one-character strings; the JSON and XML   *)
(* codecs of the Go standard library are modelled on a small sub-language  *)
(* (digits 1, strings, arrays, objects with at most one member, null).     *)
(***************************************************************************)
EXTENDS Integers, Sequences, FiniteSets, TLC

(***************************************************************************)
(* Program constants                                                       *)
(***************************************************************************)
StatusOK == 200
StatusFound == 302
StatusUnprocessableEntity == 422
StatusBadGateway == 502

\* Size ceilings of the two body readers (scaled to the model's byte strings).
MaxRequestSize == 8
MaxFileUploadSize == 10

JSONHeader == "application/json; charset=UTF-8"
XMLHeader == "application/xml; charset=UTF-8"
AllowHeaders == "Accept, Content-Type, Content-Length, Accept-Encoding, X-CSRF-Token, Authorization"

\* net/http's Client follows at most this many redirects (10 in Go).
RedirectLimit == 2

(***************************************************************************)
(* Byte strings                                                            *)
(***************************************************************************)
Take(s, n) == IF Len(s) <= n THEN s ELSE SubSeq(s, 1, n)
Drop(s, n) == IF Len(s) <= n THEN <<>> ELSE SubSeq(s, n + 1, Len(s))

RECURSIVE SkipWs(_)
SkipWs(s) == IF s # <<>> /\ Head(s) \in {" ", "\n"} THEN SkipWs(Tail(s)) ELSE s

(***************************************************************************)
(* Generic payload values (interface{} as produced by json.Unmarshal)      *)
(***************************************************************************)
Nil == [t |-> "nil", v |-> <<>>]
Num(ds) == [t |-> "num", v |-> ds]
Str(cs) == [t |-> "str", v |-> cs]
Arr(vs) == [t |-> "arr", v |-> vs]
Obj(ms) == [t |-> "obj", v |-> ms]

Fail == [ok |-> FALSE, val |-> Nil, rest |-> <<>>]
Done(v, rest) == [ok |-> TRUE, val |-> v, rest |-> rest]

(***************************************************************************)
(* encoding/json: decoder                                                  *)
(***************************************************************************)
RECURSIVE Digits(_)
Digits(s) == IF s # <<>> /\ Head(s) = "1" THEN <<"1">> \o Digits(Tail(s)) ELSE <<>>

\* Source text of a string literal up to the closing quote; <<"!">> if
\* unterminated.
RECURSIVE StrChars(_)
StrChars(s) ==
    IF s = <<>> THEN <<"!">>
    ELSE IF Head(s) = "\"" THEN <<>>
    ELSE LET r == StrChars(Tail(s))
         IN  IF r = <<"!">> THEN r ELSE <<Head(s)>> \o r

\* The characters a string literal denotes: < and > are the only
\* escapes; <<"!">> on any other backslash sequence.
RECURSIVE jsonUnescape(_)
jsonUnescape(cs) ==
    IF cs = <<>> THEN <<>>
    ELSE IF Head(cs) # "\\" THEN
        LET r == jsonUnescape(Tail(cs))
        IN  IF r = <<"!">> THEN r ELSE <<Head(cs)>> \o r
    ELSE IF Take(cs, 5) = <<"\\", "u", "0", "0", "3">> /\ Len(cs) >= 6 /\ cs[6] \in {"c", "e"} THEN
        LET r == jsonUnescape(Drop(cs, 6))
        IN  IF r = <<"!">> THEN r ELSE <<(IF cs[6] = "c" THEN "<" ELSE ">")>> \o r
    ELSE <<"!">>

ParseString(s) ==
    IF s = <<>> \/ Head(s) # "\"" THEN Fail
    ELSE LET cs == StrChars(Tail(s))
             us == jsonUnescape(cs)
         IN  IF cs = <<"!">> \/ us = <<"!">> THEN Fail
             ELSE Done(Str(us), Drop(s, Len(cs) + 2))

RECURSIVE ParseValue(_)
RECURSIVE ParseElems(_, _)
ParseElems(s, acc) ==
    LET e == ParseValue(s)
        r == SkipWs(e.rest)
    IN  IF ~e.ok \/ r = <<>> THEN Fail
        ELSE IF Head(r) = "]" THEN Done(Arr(Append(acc, e.val)), Tail(r))
        ELSE IF Head(r) = "," THEN ParseElems(Tail(r), Append(acc, e.val))
        ELSE Fail

ParseObject(s) ==
    LET a == SkipWs(s)
    IN  IF a = <<>> THEN Fail
        ELSE IF Head(a) = "}" THEN Done(Obj(<<>>), Tail(a))
        ELSE LET k == ParseString(a)
                 c == SkipWs(k.rest)
             IN  IF ~k.ok \/ c = <<>> \/ Head(c) # ":" THEN Fail
                 ELSE LET m == ParseValue(Tail(c))
                          z == SkipWs(m.rest)
                      IN  IF ~m.ok \/ z = <<>> \/ Head(z) # "}" THEN Fail
                          ELSE Done(Obj(<<[k |-> k.val.v, val |-> m.val]>>), Tail(z))

ParseValue(s0) ==
    LET s == SkipWs(s0)
    IN  IF s = <<>> THEN Fail
        ELSE IF Head(s) = "1" THEN Done(Num(Digits(s)), Drop(s, Len(Digits(s))))
        ELSE IF Head(s) = "\"" THEN ParseString(s)
        ELSE IF Take(s, 4) = <<"n", "u", "l", "l">> THEN Done(Nil, Drop(s, 4))
        ELSE IF Head(s) = "[" THEN
            LET a == SkipWs(Tail(s))
            IN  IF a # <<>> /\ Head(a) = "]" THEN Done(Arr(<<>>), Tail(a))
                ELSE ParseElems(Tail(s), <<>>)
        ELSE IF Head(s) = "{" THEN ParseObject(Tail(s))
        ELSE Fail

\* json.Unmarshal(content, &data) with data a nil interface{}: on any error
\* data is left nil.
jsonUnmarshal(bs) ==
    LET p == ParseValue(bs)
    IN  IF p.ok /\ SkipWs(p.rest) = <<>> THEN [ok |-> TRUE, val |-> p.val]
        ELSE [ok |-> FALSE, val |-> Nil]

(***************************************************************************)
(* encoding/json: encoder                                                  *)
(***************************************************************************)
\* HTML-unsafe characters are escaped as \u00XX by Go's encoder.
RECURSIVE jsonEscape(_)
jsonEscape(cs) ==
    IF cs = <<>> THEN <<>>
    ELSE (IF Head(cs) = "<" THEN <<"\\", "u", "0", "0", "3", "c">>
          ELSE IF Head(cs) = ">" THEN <<"\\", "u", "0", "0", "3", "e">>
          ELSE <<Head(cs)>>) \o jsonEscape(Tail(cs))

RECURSIVE jsonMarshal(_)
RECURSIVE jsonJoin(_)
jsonJoin(vs) ==
    IF vs = <<>> THEN <<>>
    ELSE IF Len(vs) = 1 THEN jsonMarshal(vs[1])
    ELSE jsonMarshal(vs[1]) \o <<",">> \o jsonJoin(Tail(vs))

jsonMarshal(x) ==
    CASE x.t = "nil" -> <<"n", "u", "l", "l">>
      [] x.t = "num" -> x.v
      [] x.t = "str" -> <<"\"">> \o jsonEscape(x.v) \o <<"\"">>
      [] x.t = "arr" -> <<"[">> \o jsonJoin(x.v) \o <<"]">>
      [] x.t = "obj" ->
            IF x.v = <<>> THEN <<"{", "}">>
            ELSE <<"{", "\"">> \o jsonEscape(x.v[1].k) \o <<"\"", ":">>
                 \o jsonMarshal(x.v[1].val) \o <<"}">>

\* json.NewEncoder(w).Encode(v) writes the encoding followed by a newline.
jsonEncoding(x) == jsonMarshal(x) \o <<"\n">>

(***************************************************************************)
(* encoding/xml                                                            *)
(***************************************************************************)
RECURSIVE xmlEscape(_)
xmlEscape(cs) ==
    IF cs = <<>> THEN <<>>
    ELSE (IF Head(cs) = "<" THEN <<"&", "l", "t", ";">>
          ELSE IF Head(cs) = ">" THEN <<"&", "g", "t", ";">>
          ELSE IF Head(cs) = "\"" THEN <<"&", "#", "3", "4", ";">>
          ELSE <<Head(cs)>>) \o xmlEscape(Tail(cs))

TagFloat == <<"f", "l", "o", "a", "t", "6", "4">>
TagString == <<"s", "t", "r", "i", "n", "g">>
Element(tag, body) == <<"<">> \o tag \o <<">">> \o body \o <<"<", "/">> \o tag \o <<">">>

\* xml.Marshal(data) for data produced by json.Unmarshal: float64 and string
\* become elements named after their Go type, slices marshal their elements
\* one after the other, nil marshals to nothing, maps are unsupported.
RECURSIVE xmlMarshal(_)
RECURSIVE xmlMarshalAll(_)
xmlMarshalAll(vs) ==
    IF vs = <<>> THEN [ok |-> TRUE, bytes |-> <<>>]
    ELSE LET h == xmlMarshal(vs[1])
             t == xmlMarshalAll(Tail(vs))
         IN  IF h.ok /\ t.ok THEN [ok |-> TRUE, bytes |-> h.bytes \o t.bytes]
             ELSE [ok |-> FALSE, bytes |-> <<>>]

xmlMarshal(x) ==
    CASE x.t = "nil" -> [ok |-> TRUE, bytes |-> <<>>]
      [] x.t = "num" -> [ok |-> TRUE, bytes |-> Element(TagFloat, x.v)]
      [] x.t = "str" -> [ok |-> TRUE, bytes |-> Element(TagString, xmlEscape(x.v))]
      [] x.t = "arr" -> xmlMarshalAll(x.v)
      [] x.t = "obj" -> [ok |-> FALSE, bytes |-> <<>>]

\* Position of the first "<" in s, 0 if none.
RECURSIVE IndexOfLt(_, _)
IndexOfLt(s, i) ==
    IF i > Len(s) THEN 0 ELSE IF s[i] = "<" THEN i ELSE IndexOfLt(s, i + 1)

\* xml.Unmarshal(contents, &serverData) with serverData a nil interface{}: the
\* decoder looks for the first start element and skips it (reflect.Interface
\* values are ignored), so serverData stays nil; it fails when there is no
\* start element or the element is not closed.  Elements are <a/> or <a>..</a>
\* with character data only.
xmlUnmarshal(bs) ==
    LET i == IndexOfLt(bs, 1)
        e == IF i = 0 THEN <<>> ELSE SubSeq(bs, i, Len(bs))
        closeAt == IF Len(e) < 3 THEN 0 ELSE IndexOfLt(Drop(e, 3), 1)
        wellFormed ==
            \/ Take(e, 4) = <<"<", "a", "/", ">">>
            \/ /\ Take(e, 3) = <<"<", "a", ">">>
               /\ closeAt # 0
               /\ SubSeq(e, closeAt + 3, Len(e)) # <<>>
               /\ Take(SubSeq(e, closeAt + 3, Len(e)), 4) = <<"<", "/", "a", ">">>
    IN  [ok |-> wellFormed, val |-> Nil]

(***************************************************************************)
(* net/http headers (a header map gives every key its value list; the      *)
(* empty list stands for an absent key)                                    *)
(***************************************************************************)
HeaderKeys == {"Origin", "Content-Type", "Authorization", "X-Multi", "Location",
               "Access-Control-Allow-Origin", "Access-Control-Allow-Methods",
               "Access-Control-Allow-Headers"}
NoHeader == [k \in HeaderKeys |-> <<>>]

\* Header.Get: the first value of the key, "" when absent.
hGet(h, k) == IF h[k] = <<>> THEN "" ELSE h[k][1]
\* Header.Set: replaces the value list by the single value.
hSet(h, k, v) == [h EXCEPT ![k] = <<v>>]

(***************************************************************************)
(* http.ResponseWriter together with the log sink: o = [w, logs]           *)
(***************************************************************************)
NewWriter == [Header |-> NoHeader, wroteHeader |-> FALSE, status |-> 0,
              sent |-> NoHeader, body |-> <<>>, superfluous |-> 0,
              werr |-> FALSE]

\* 1xx, 204 and 304 responses carry no body (http.ErrBodyNotAllowed).
bodyAllowedForStatus(s) == ~(s \in 100..199 \/ s = 204 \/ s = 304)

wSetHeader(o, k, v) == [o EXCEPT !.w.Header = hSet(@, k, v)]

\* The first WriteHeader commits the status line with a snapshot of the
\* header map; any later call is superfluous and changes nothing.
wWriteHeader(o, code) ==
    IF o.w.wroteHeader THEN [o EXCEPT !.w.superfluous = @ + 1]
    ELSE [o EXCEPT !.w.wroteHeader = TRUE, !.w.status = code, !.w.sent = o.w.Header]

\* Write commits status 200 if nothing was committed, then sends the bytes;
\* it fails when the status forbids a body or the connection is broken.
wWrite(o, p, ok) ==
    LET o1 == IF o.w.wroteHeader THEN o
              ELSE [o EXCEPT !.w.wroteHeader = TRUE, !.w.status = StatusOK,
                             !.w.sent = o.w.Header]
    IN  IF p = <<>> THEN [o1 EXCEPT !.w.werr = FALSE]
        ELSE IF ~bodyAllowedForStatus(o1.w.status) \/ ~ok THEN [o1 EXCEPT !.w.werr = TRUE]
        ELSE [o1 EXCEPT !.w.body = @ \o p, !.w.werr = FALSE]

Log(o, severity) == [o EXCEPT !.logs = Append(@, severity)]

\* JSON encoding of map{"Code": code, "Text": text, key: err} (keys sorted).
ErrorBody(code, text, key, e) ==
    <<"{", "\"Code\":", code, ",", key, e, ",", "\"Text\":", text, "}", "\n">>

\* strconv.Itoa / http.StatusText on the codes the engine produces itself.
Itoa(code) ==
    CASE code = 400 -> "400"
      [] code = StatusUnprocessableEntity -> "422"
      [] code = StatusBadGateway -> "502"
StatusText(code) ==
    CASE code = 400 -> "\"Bad Request\""
      [] code = StatusUnprocessableEntity -> "\"Unprocessable Entity\""
      [] code = StatusBadGateway -> "\"Bad Gateway\""

notifyClientOfRequestError(o, code, msg, ok) ==
    wWrite(wWriteHeader(o, code),
           ErrorBody(Itoa(code), StatusText(code), "\"Specifically\":", msg), ok)

requestPreprocessing(o, rejected, ok) ==
    IF rejected THEN notifyClientOfRequestError(o, 400, "\"rejected\"", ok)
    ELSE o

\* invalidPUT answering 400 Bad Request instead of 422.
invalidPUT_BadRequest(o, e, ok) ==
    LET o1 == wSetHeader(o, "Content-Type", "application/json; charset=UTF-8")
        o2 == wWriteHeader(o1, 400)
        o3 == wWrite(o2, ErrorBody(Itoa(StatusUnprocessableEntity), "\"Unprocessable Entity\"",
                                  "\"Specfically\":", e), ok)
    IN  IF o3.w.werr
        THEN notifyClientOfRequestError(Log(o3, "ERR"), StatusBadGateway, "\"\"", ok)
        ELSE o3

invalidPUT(o, e, ok) ==
    LET o1 == wSetHeader(o, "Content-Type", "application/json; charset=UTF-8")
        o2 == wWriteHeader(o1, StatusUnprocessableEntity)
        o3 == wWrite(o2, ErrorBody(Itoa(StatusUnprocessableEntity), "\"Unprocessable Entity\"",
                                  "\"Specfically\":", e), ok)
    IN  IF o3.w.werr
        THEN notifyClientOfRequestError(Log(o3, "ERR"), StatusBadGateway, "\"\"", ok)
        ELSE o3

invalidPOST(o, e, ok) ==
    LET o1 == wSetHeader(o, "Content-Type", JSONHeader)
        o2 == wWriteHeader(o1, StatusUnprocessableEntity)
        o3 == wWrite(o2, ErrorBody(Itoa(StatusUnprocessableEntity), "\"Unprocessable Entity\"",
                                  "\"Specifically\":", e), ok)
    IN  IF o3.w.werr
        THEN notifyClientOfRequestError(Log(o3, "ERR"), StatusBadGateway, "\"\"", ok)
        ELSE o3

unsuccessfulPUT(o, fmt, bs, ok) ==
    IF fmt \notin {"JSON", "XML"} THEN wWrite(o, bs, ok)
    ELSE LET d == IF fmt = "JSON" THEN jsonUnmarshal(bs).val
                  ELSE xmlUnmarshal(bs).val
             o1 == wWrite(o, jsonEncoding(d), ok)
         IN  IF o1.w.werr
             THEN notifyClientOfRequestError(Log(o1, "ERR"), StatusBadGateway, "\"\"", ok)
             ELSE o1

(***************************************************************************)
(* Body streams                                                            *)
(***************************************************************************)
\* ioutil.ReadAll(io.LimitReader(body, n)): at most n bytes are taken.
LimitReader(body, n) == Take(body, n)

\* ioutil.ReadAll(resp.Body): the whole body, or a proper prefix of it when
\* the stream fails.
ReadAll(body, fails) ==
    IF fails THEN {Take(body, n) : n \in 0..(IF body = <<>> THEN 0 ELSE Len(body) - 1)}
    ELSE {body}

(***************************************************************************)
(* Inputs of a call                                                        *)
(***************************************************************************)
Formats == {"JSON", "XML", "RAW", "FORM"}
Tokens == {"", "Bearer t"}
Urls == {"http://svc/put", "%zz"}
\* http.NewRequest fails on a URL that does not parse.
urlParses(u) == u # "%zz"

InHeader(origin, ctype, auth, multi) ==
    [NoHeader EXCEPT !["Origin"] = origin, !["Content-Type"] = ctype,
                     !["Authorization"] = auth, !["X-Multi"] = multi]
InHeaders ==
    { InHeader(<<>>, <<>>, <<>>, <<>>),
      InHeader(<<"https://app">>, <<>>, <<>>, <<>>),
      InHeader(<<>>, <<"text/plain">>, <<>>, <<>>),
      InHeader(<<>>, <<>>, <<"Basic in">>, <<>>),
      InHeader(<<>>, <<>>, <<>>, <<"b", "a">>),
      InHeader(<<"https://app">>, <<"text/plain">>, <<"Basic in">>, <<"b", "a">>) }

InBodies ==
    { <<>>,
      <<"{", "\"", "a", "\"", ":", "1", "}">>,
      <<" ", "1">>,
      <<"\"", "<", "\"">>,
      <<"{", "}">>,
      <<"<", "a", "/", ">">>,
      <<"{", "\"", "a", "\"", ":", "1", "1", "1", "}">>,
      <<"[", "\"", "<", "\"", "]", " ", " ", " ", " ", " ", " ">> }

RespBodies ==
    { <<>>,
      <<"{", "\"", "a", "\"", ":", "1", "}">>,
      <<" ", "1">>,
      <<"\"", "<", "\"">>,
      <<"<", "a", "/", ">">>,
      <<"<", "a", ">", "1">> }

\* Statuses the backend answers with: OK, No Content, Found, Internal Server Error.
BackendStatuses == {StatusOK, 204, StatusFound, 500}

NoResp == [err |-> FALSE, StatusCode |-> 0, Location |-> "", ContentType |-> "",
           Body |-> <<>>, readErr |-> FALSE]
\* client.Do failed at transport level: resp is nil, err is set.
TransportError == [NoResp EXCEPT !.err = TRUE]
Responses ==
    { [err |-> FALSE, StatusCode |-> s, Location |-> l, ContentType |-> c,
       Body |-> b, readErr |-> f] :
        s \in BackendStatuses,
        l \in {"", "https://x/y"}, c \in {"", "text/plain"},
        b \in RespBodies, f \in BOOLEAN }
Outcomes ==
    {TransportError} \cup
    { x \in Responses :
        /\ (x.StatusCode \in {204, StatusFound} => x.Body = <<>> /\ ~x.readErr)
        /\ (x.StatusCode # StatusFound => x.Location = "")
        /\ (x.StatusCode = StatusFound => x.ContentType = "") }

NoReq == [built |-> FALSE, Header |-> NoHeader, Body |-> <<>>]

(***************************************************************************)
(* State                                                                   *)
(***************************************************************************)
VARIABLES
    format, url, token, r,       \* arguments of PUT (r = [Header, Body])
    connOk,                      \* writes to the client connection succeed
    pc,                          \* position of the call
    preprocessing_err,           \* requestPreprocessing rejected the request
    inBody,                      \* r.Body: bytes consumed, read, closed, errors
    content, data,               \* bytes read from r.Body, decoded value
    req,                         \* outbound request
    sent,                        \* requests received by the backend
    hops,                        \* redirects followed by the RAW client
    firstResp,                   \* the backend's answer to the forwarded PUT
    resp,                        \* result of client.Do
    contents,                    \* bytes read from resp.Body
    respBody,                    \* resp.Body: read, closed
    logResp,                     \* calls of logger.LogResp
    w, logs                      \* response writer, events given to logger.Log

vars == <<format, url, token, r, connOk, pc, preprocessing_err, inBody, content,
          data, req, sent, hops, firstResp, resp, contents, respBody, logResp, w, logs>>
inputs == <<format, url, token, r, connOk>>

O == [w |-> w, logs |-> logs]
Out(o) == w' = o.w /\ logs' = o.logs

Init ==
    /\ format \in Formats
    /\ url \in Urls
    /\ token \in Tokens
    /\ r \in [Header : InHeaders, Body : InBodies]
    /\ connOk \in BOOLEAN
    /\ pc = "PUT"
    /\ preprocessing_err = FALSE
    /\ inBody = [consumed |-> 0, read |-> FALSE, closed |-> FALSE,
                 readErr |-> FALSE, closeErr |-> FALSE]
    /\ content = <<>>
    /\ data = Nil
    /\ req = NoReq
    /\ sent = <<>>
    /\ hops = 0
    /\ firstResp = NoResp
    /\ resp = NoResp
    /\ contents = <<>>
    /\ respBody = [read |-> FALSE, closed |-> FALSE]
    /\ logResp = 0
    /\ w = NewWriter
    /\ logs = <<>>

(***************************************************************************)
(* PUT                                                                     *)
(***************************************************************************)
\* Any origin allowed: the wildcard instead of the request's Origin.
corsHeaders_Wildcard(o, origin) ==
    IF origin # ""
    THEN wSetHeader(wSetHeader(wSetHeader(o,
            "Access-Control-Allow-Origin", "*"),
            "Access-Control-Allow-Methods", "PUT"),
            "Access-Control-Allow-Headers", AllowHeaders)
    ELSE o

\* The CORS headers set from the Origin header.
corsHeaders(o, origin) ==
    IF origin # ""
    THEN wSetHeader(wSetHeader(wSetHeader(o,
            "Access-Control-Allow-Origin", origin),
            "Access-Control-Allow-Methods", "PUT"),
            "Access-Control-Allow-Headers", AllowHeaders)
    ELSE o

\* The format check dropped, leaving unknown tags to the later switch.
unsupportedFormat_Never(fmt) == FALSE

\* format != "XML" && format != "JSON"
unsupportedFormat(fmt) == fmt # "XML" /\ fmt # "JSON"

\* Entry of PUT up to the format dispatch.
PUT_Entry ==
    /\ pc = "PUT"
    /\ \E rejected \in BOOLEAN :
        LET o0 == corsHeaders(O, hGet(r.Header, "Origin"))
            o1 == requestPreprocessing(o0, rejected, connOk)
        IN  /\ preprocessing_err' = rejected
            /\ IF rejected THEN Out(o1) /\ pc' = "done"
               ELSE IF format = "RAW" THEN Out(o1) /\ pc' = "rawPUT"
               ELSE IF unsupportedFormat(format)
               THEN Out(Log(invalidPUT(o1, "\"Unsupported data encoding\"", connOk), "ERR"))
                    /\ pc' = "done"
               ELSE Out(o1) /\ pc' = "ReadAll"
    /\ UNCHANGED <<inputs, inBody, content, data, req, sent, hops, firstResp, resp, contents, respBody, logResp>>

\* content, err := ioutil.ReadAll(io.LimitReader(r.Body, MaxRequestSize))
PUT_ReadAll ==
    /\ pc = "ReadAll"
    /\ \E fails \in BOOLEAN :
        /\ content' = LimitReader(r.Body, MaxRequestSize)
        /\ inBody' = [inBody EXCEPT !.read = TRUE, !.consumed = Len(content'),
                                    !.readErr = fails]
        /\ IF fails
           THEN Out(Log(invalidPUT(O, "\"read\"", connOk), "ERR")) /\ pc' = "done"
           ELSE UNCHANGED <<w, logs>> /\ pc' = "Close"
    /\ UNCHANGED <<inputs, preprocessing_err, data, req, sent, hops, firstResp, resp, contents, respBody, logResp>>

\* The result of Close is not examined: the call goes on to decode.
PUT_Close_IgnoreError ==
    /\ pc = "Close"
    /\ \E fails \in BOOLEAN :
        /\ inBody' = [inBody EXCEPT !.closed = TRUE, !.closeErr = fails]
        /\ UNCHANGED <<w, logs>> /\ pc' = "Unmarshal"
    /\ UNCHANGED <<inputs, preprocessing_err, content, data, req, sent, hops, firstResp, resp,
                   contents, respBody, logResp>>

\* r.Body.Close()
PUT_Close ==
    /\ pc = "Close"
    /\ \E fails \in BOOLEAN :
        /\ inBody' = [inBody EXCEPT !.closed = TRUE, !.closeErr = fails]
        /\ IF fails
           THEN Out(Log(invalidPUT(O, "\"close\"", connOk), "ERR")) /\ pc' = "done"
           ELSE UNCHANGED <<w, logs>> /\ pc' = "Unmarshal"
    /\ UNCHANGED <<inputs, preprocessing_err, content, data, req, sent, hops, firstResp, resp,
                   contents, respBody, logResp>>

\* json.Unmarshal(content, &data) and the dispatch on format (the default
\* case of the switch cannot be reached past the earlier format check).
PUT_Unmarshal ==
    /\ pc = "Unmarshal"
    /\ LET d == jsonUnmarshal(content)
       IN  IF ~d.ok
           THEN /\ Out(Log(invalidPOST(O, "\"decode\"", connOk), "ERR"))
                /\ pc' = "done"
                /\ UNCHANGED data
           ELSE IF format \notin {"XML", "JSON"}
           THEN /\ Out(Log(invalidPUT(O, "null", connOk), "ERR"))
                /\ pc' = "done"
                /\ data' = d.val
           ELSE /\ data' = d.val
                /\ pc' = (IF format = "XML" THEN "xmlPUT" ELSE "jsonPUT")
                /\ UNCHANGED <<w, logs>>
    /\ UNCHANGED <<inputs, preprocessing_err, inBody, content, req, sent, hops, firstResp, resp,
                   contents, respBody, logResp>>

(***************************************************************************)
(* Header propagation                                                      *)
(***************************************************************************)
\* for k, vs := range r.Header { req.Header[k] = copy of vs }
copyHeaders(dst, src) == [k \in HeaderKeys |-> IF src[k] # <<>> THEN src[k] ELSE dst[k]]

\* The token written unconditionally.
setAuthorization_Always(h, tok) == hSet(h, "Authorization", tok)

setAuthorization(h, tok) == IF tok # "" THEN hSet(h, "Authorization", tok) ELSE h

jsonPUT_Header(h, tok) ==
    setAuthorization(hSet(copyHeaders(NoHeader, h), "Content-Type", JSONHeader), tok)

xmlPUT_Header(h, tok) ==
    setAuthorization(copyHeaders(hSet(NoHeader, "Content-Type", XMLHeader), h), tok)

rawPUT_Header(h, tok) == setAuthorization(copyHeaders(NoHeader, h), tok)

Request(method, u, h, b) == [method |-> method, url |-> u, Header |-> h, Body |-> b]

(***************************************************************************)
(* jsonPUT                                                                 *)
(***************************************************************************)
\* json.Marshal(data), http.NewRequest and the header loop.  json.Marshal
\* cannot fail on a value that json.Unmarshal produced.  When NewRequest
\* fails its error is dropped and req is nil: the next use of req panics.
jsonPUT_NewRequest ==
    /\ pc = "jsonPUT"
    /\ IF ~urlParses(url)
       THEN pc' = "panic" /\ UNCHANGED req
       ELSE /\ req' = [built |-> TRUE, Header |-> jsonPUT_Header(r.Header, token),
                       Body |-> jsonMarshal(data)]
            /\ pc' = "jsonPUT_Do"
    /\ UNCHANGED <<inputs, preprocessing_err, inBody, content, data, sent, hops, firstResp, resp,
                   contents, respBody, logResp, w, logs>>

\* The default redirect policy of http.Client: a 302 that names a Location is
\* followed (a PUT is re-issued as a GET without body).
followsRedirect(out) == ~out.err /\ out.StatusCode = StatusFound /\ out.Location # ""

\* The client built without CheckRedirect: the default policy applies.
jsonPUT_CheckRedirect_Default(out) == followsRedirect(out)

\* CheckRedirect returns http.ErrUseLastResponse: no response is followed.
jsonPUT_CheckRedirect(out) == FALSE

\* client.Do(req) under the CheckRedirect policy of jsonPUT.
jsonPUT_Do ==
    /\ pc = "jsonPUT_Do"
    /\ \E out \in Outcomes :
        /\ sent' = Append(sent, Request("PUT", url, req.Header, req.Body))
        /\ resp' = out
        /\ firstResp' = (IF sent = <<>> THEN out ELSE firstResp)
        /\ pc' = (IF jsonPUT_CheckRedirect(out) THEN "jsonPUT_Do" ELSE "jsonPUT_Resp")
    /\ UNCHANGED <<inputs, preprocessing_err, inBody, content, data, req, hops, contents,
                   respBody, logResp, w, logs>>

jsonPUT_Found(o, rsp) ==
    wWriteHeader(wSetHeader(Log(o, "DEBUG"), "Location", rsp.Location), StatusFound)

\* The backend status not written: the body commits 200.
jsonPUT_Failed_NoStatus(o, rsp, bs, ok) ==
    LET o1 == Log(o, "WARN")
        o2 == wSetHeader(o1, "Content-Type", "application/json; charset=UTF-8")
    IN  unsuccessfulPUT(o2, "JSON", bs, ok)

jsonPUT_Failed(o, rsp, bs, ok) ==
    LET o1 == Log(o, "WARN")
        o2 == wSetHeader(o1, "Content-Type", "application/json; charset=UTF-8")
        o3 == wWriteHeader(o2, rsp.StatusCode)
    IN  unsuccessfulPUT(o3, "JSON", bs, ok)

\* Content-Type set after the body was encoded to the client.
jsonPUT_OK_HeaderLate(o, bs, ok) ==
    LET d == jsonUnmarshal(bs)
        o2 == wWrite(o, jsonEncoding(d.val), ok)
    IN  IF ~d.ok THEN Log(invalidPUT(o, "\"decode\"", ok), "ERR")
        ELSE IF o2.w.werr THEN Log(invalidPUT(o2, "\"encode\"", ok), "ERR")
        ELSE wSetHeader(o2, "Content-Type", JSONHeader)

jsonPUT_OK(o, bs, ok) ==
    LET d == jsonUnmarshal(bs)
        o1 == wSetHeader(o, "Content-Type", JSONHeader)
        o2 == wWrite(o1, jsonEncoding(d.val), ok)
    IN  IF ~d.ok THEN Log(invalidPUT(o, "\"decode\"", ok), "ERR")
        ELSE IF o2.w.werr THEN Log(invalidPUT(o2, "\"encode\"", ok), "ERR")
        ELSE o2

jsonPUT_Response ==
    /\ pc = "jsonPUT_Resp"
    /\ logResp' = logResp + 1
    /\ IF resp.err
       THEN /\ Out(Log(invalidPUT(O, "\"transport\"", connOk), "ERR"))
            /\ UNCHANGED <<contents, respBody>>
       ELSE IF resp.StatusCode = StatusFound
       THEN Out(jsonPUT_Found(O, resp)) /\ UNCHANGED <<contents, respBody>>
       ELSE IF resp.StatusCode # StatusOK
       THEN \E bytes \in ReadAll(resp.Body, resp.readErr) :
                /\ contents' = bytes
                /\ Out(jsonPUT_Failed(O, resp, bytes, connOk))
                /\ respBody' = [read |-> TRUE, closed |-> FALSE]
       ELSE \E bytes \in ReadAll(resp.Body, resp.readErr) :
                /\ contents' = bytes
                /\ Out(jsonPUT_OK(O, bytes, connOk))
                /\ respBody' = [read |-> TRUE, closed |-> TRUE]
    /\ pc' = "done"
    /\ UNCHANGED <<inputs, preprocessing_err, inBody, content, data, req, sent, hops,
                   firstResp, resp>>

(***************************************************************************)
(* xmlPUT                                                                  *)
(***************************************************************************)
xmlPUT_NewRequest ==
    /\ pc = "xmlPUT"
    /\ LET m == xmlMarshal(data)
       IN  IF ~m.ok
           THEN /\ Out(Log(invalidPUT(O, "\"encode\"", connOk), "ERR"))
                /\ pc' = "done"
                /\ UNCHANGED req
           ELSE IF ~urlParses(url)
           THEN pc' = "panic" /\ UNCHANGED <<req, w, logs>>
           ELSE /\ req' = [built |-> TRUE, Header |-> xmlPUT_Header(r.Header, token),
                           Body |-> m.bytes]
                /\ pc' = "xmlPUT_Do"
                /\ UNCHANGED <<w, logs>>
    /\ UNCHANGED <<inputs, preprocessing_err, inBody, content, data, sent, hops, firstResp, resp,
                   contents, respBody, logResp>>

xmlPUT_CheckRedirect(out) == FALSE

xmlPUT_Do ==
    /\ pc = "xmlPUT_Do"
    /\ \E out \in Outcomes :
        /\ sent' = Append(sent, Request("PUT", url, req.Header, req.Body))
        /\ resp' = out
        /\ firstResp' = (IF sent = <<>> THEN out ELSE firstResp)
        /\ pc' = (IF xmlPUT_CheckRedirect(out) THEN "xmlPUT_Do" ELSE "xmlPUT_Resp")
    /\ UNCHANGED <<inputs, preprocessing_err, inBody, content, data, req, hops, contents,
                   respBody, logResp, w, logs>>

\* The status line written before the Location header is set.
xmlPUT_Found_StatusFirst(o, rsp) ==
    wSetHeader(wWriteHeader(Log(o, "DEBUG"), StatusFound), "Location", rsp.Location)

xmlPUT_Found(o, rsp) ==
    wWriteHeader(wSetHeader(Log(o, "DEBUG"), "Location", rsp.Location), StatusFound)

xmlPUT_Failed(o, rsp, bs, ok) ==
    LET o1 == Log(o, "WARN")
        o2 == wSetHeader(o1, "Content-Type", XMLHeader)
        o3 == wWriteHeader(o2, rsp.StatusCode)
    IN  unsuccessfulPUT(o3, "XML", bs, ok)

xmlPUT_OK(o, bs, ok) ==
    LET d == xmlUnmarshal(bs)
        o1 == wSetHeader(o, "Content-Type", JSONHeader)
        o2 == wWrite(o1, jsonEncoding(d.val), ok)
    IN  IF ~d.ok THEN Log(invalidPUT(o, "\"decode\"", ok), "ERR")
        ELSE IF o2.w.werr THEN Log(invalidPUT(o2, "\"encode\"", ok), "ERR")
        ELSE wWriteHeader(o2, StatusOK)

xmlPUT_Response ==
    /\ pc = "xmlPUT_Resp"
    /\ logResp' = logResp + 1
    /\ IF resp.err
       THEN /\ Out(Log(invalidPUT(O, "\"transport\"", connOk), "ERR"))
            /\ UNCHANGED <<contents, respBody>>
       ELSE IF resp.StatusCode = StatusFound
       THEN Out(xmlPUT_Found(O, resp)) /\ UNCHANGED <<contents, respBody>>
       ELSE IF resp.StatusCode # StatusOK
       THEN \E bytes \in ReadAll(resp.Body, resp.readErr) :
                /\ contents' = bytes
                /\ Out(xmlPUT_Failed(O, resp, bytes, connOk))
                /\ respBody' = [read |-> TRUE, closed |-> FALSE]
       ELSE \E bytes \in ReadAll(resp.Body, resp.readErr) :
                /\ contents' = bytes
                /\ Out(xmlPUT_OK(O, bytes, connOk))
                /\ respBody' = [read |-> TRUE, closed |-> TRUE]
    /\ pc' = "done"
    /\ UNCHANGED <<inputs, preprocessing_err, inBody, content, data, req, sent, hops,
                   firstResp, resp>>

(***************************************************************************)
(* rawPUT                                                                  *)
(***************************************************************************)
rawPUT_ReadAll ==
    /\ pc = "rawPUT"
    /\ \E fails \in BOOLEAN :
        /\ content' = LimitReader(r.Body, MaxFileUploadSize)
        /\ inBody' = [inBody EXCEPT !.read = TRUE, !.consumed = Len(content'),
                                    !.readErr = fails]
        /\ IF fails
           THEN Out(Log(invalidPUT(O, "\"read\"", connOk), "ERR")) /\ pc' = "done"
           ELSE UNCHANGED <<w, logs>> /\ pc' = "rawPUT_Close"
    /\ UNCHANGED <<inputs, preprocessing_err, data, req, sent, hops, firstResp, resp, contents, respBody, logResp>>

rawPUT_Close ==
    /\ pc = "rawPUT_Close"
    /\ \E fails \in BOOLEAN :
        /\ inBody' = [inBody EXCEPT !.closed = TRUE, !.closeErr = fails]
        /\ IF fails
           THEN Out(Log(invalidPUT(O, "\"close\"", connOk), "ERR")) /\ pc' = "done"
           ELSE UNCHANGED <<w, logs>> /\ pc' = "rawPUT_NewRequest"
    /\ UNCHANGED <<inputs, preprocessing_err, content, data, req, sent, hops, firstResp, resp,
                   contents, respBody, logResp>>

rawPUT_NewRequest ==
    /\ pc = "rawPUT_NewRequest"
    /\ IF ~urlParses(url)
       THEN pc' = "panic" /\ UNCHANGED req
       ELSE /\ req' = [built |-> TRUE, Header |-> rawPUT_Header(r.Header, token),
                       Body |-> content]
            /\ pc' = "rawPUT_Do"
    /\ UNCHANGED <<inputs, preprocessing_err, inBody, content, data, sent, hops, firstResp, resp,
                   contents, respBody, logResp, w, logs>>

\* client.Do(req) without CheckRedirect: first exchange.
rawPUT_Do ==
    /\ pc = "rawPUT_Do"
    /\ \E out \in Outcomes :
        /\ sent' = Append(sent, Request("PUT", url, req.Header, req.Body))
        /\ resp' = out
        /\ firstResp' = out
        /\ pc' = (IF followsRedirect(out) THEN "rawPUT_Redirect" ELSE "rawPUT_Resp")
    /\ UNCHANGED <<inputs, preprocessing_err, inBody, content, data, req, hops, contents,
                   respBody, logResp, w, logs>>

\* client.Do(req), still inside the call: one redirect hop, or the error
\* "stopped after N redirects".
rawPUT_Redirect ==
    /\ pc = "rawPUT_Redirect"
    /\ IF hops >= RedirectLimit
       THEN /\ resp' = TransportError
            /\ pc' = "rawPUT_Resp"
            /\ UNCHANGED <<sent, hops>>
       ELSE \E out \in Outcomes :
            /\ sent' = Append(sent, Request("GET", resp.Location, req.Header, <<>>))
            /\ hops' = hops + 1
            /\ resp' = out
            /\ pc' = (IF followsRedirect(out) THEN "rawPUT_Redirect" ELSE "rawPUT_Resp")
    /\ UNCHANGED <<inputs, preprocessing_err, inBody, content, data, req, firstResp,
                   contents, respBody, logResp, w, logs>>

\* The status line written for a backend status other than 200.
rawPUT_Status(o, rsp) ==
    IF rsp.StatusCode # StatusOK
    THEN wWriteHeader(wSetHeader(Log(o, "WARN"), "Content-Type",
                                 "application/json; charset=UTF-8"), rsp.StatusCode)
    ELSE o

\* Reading resp.Body and passing it on.
rawPUT_Body(o, rsp, bs, ok) ==
    LET o1 == wSetHeader(o, "Content-Type", rsp.ContentType)
        o2 == wWrite(o1, bs, ok)
    IN  IF rsp.readErr THEN Log(invalidPUT(o, "\"read\"", ok), "ERR")
        ELSE IF o2.w.werr THEN Log(invalidPUT(o2, "\"write\"", ok), "ERR")
        ELSE o2

rawPUT_Response ==
    /\ pc = "rawPUT_Resp"
    /\ logResp' = logResp + 1
    /\ IF resp.err
       THEN /\ Out(Log(invalidPUT(O, "\"transport\"", connOk), "ERR"))
            /\ UNCHANGED <<contents, respBody>>
       ELSE \E bytes \in ReadAll(resp.Body, resp.readErr) :
                /\ contents' = bytes
                /\ Out(rawPUT_Body(rawPUT_Status(O, resp), resp, bytes, connOk))
                /\ respBody' = [read |-> TRUE, closed |-> TRUE]
    /\ pc' = "done"
    /\ UNCHANGED <<inputs, preprocessing_err, inBody, content, data, req, sent, hops,
                   firstResp, resp>>

(***************************************************************************)
(* Specification                                                           *)
(***************************************************************************)
Next ==
    \/ PUT_Entry
    \/ PUT_ReadAll
    \/ PUT_Close
    \/ PUT_Unmarshal
    \/ jsonPUT_NewRequest
    \/ jsonPUT_Do
    \/ jsonPUT_Response
    \/ xmlPUT_NewRequest
    \/ xmlPUT_Do
    \/ xmlPUT_Response
    \/ rawPUT_ReadAll
    \/ rawPUT_Close
    \/ rawPUT_NewRequest
    \/ rawPUT_Do
    \/ rawPUT_Redirect
    \/ rawPUT_Response

Spec == Init /\ [][Next]_vars

Returned == pc = "done"
Terminated == pc \in {"done", "panic"}

\* The backend answered the call (resp is the response handed to the engine).
Answered == Returned /\ sent # <<>> /\ ~resp.err
Structured == format \in {"JSON", "XML"}
\* The value the response decoder of the pipeline leaves in serverData / data.
Decoded(fmt, bs) == IF fmt = "JSON" THEN jsonUnmarshal(bs) ELSE xmlUnmarshal(bs)
CeilingOf(fmt) == IF fmt = "RAW" THEN MaxFileUploadSize ELSE MaxRequestSize
InvalidBody(key, e) ==
    ErrorBody(Itoa(StatusUnprocessableEntity), "\"Unprocessable Entity\"", key, e)

(***************************************************************************)
(* Claims                                                                  *)
(***************************************************************************)

\* C1: every call that returns has written exactly one response: a status
\* line was committed and no response logic (WriteHeader) ran after a status
\* or body bytes had already been written.  Stated for calls whose client
\* connection accepts writes.
C1_ExactlyOneResponse ==
    (Returned /\ connOk) => (w.wroteHeader /\ w.superfluous = 0)

\* C2: when client.Do fails at transport level, in each pipeline the client
\* receives status 422, committed by the one and only WriteHeader, with the
\* 422 error body, and resp.Body is never read.  (A second response attempt
\* happens only when the write of the 422 body itself fails.)
C2_TransportFailure422 ==
    (Returned /\ sent # <<>> /\ resp.err) =>
        /\ w.wroteHeader /\ w.status = StatusUnprocessableEntity
        /\ ~respBody.read /\ contents = <<>>
        /\ connOk => /\ w.superfluous = 0
                     /\ w.body = InvalidBody("\"Specfically\":", "\"transport\"")
C2_Witness ==
    /\ Returned /\ sent # <<>> /\ resp.err /\ connOk /\ format = "XML"
    /\ w.status = StatusUnprocessableEntity

\* C3 (as claimed): in every pipeline a backend answer 302 with Location L to
\* the forwarded PUT gives the client 302 with Location L and no body, and no
\* second request is made.
C3_RedirectAllPipelines ==
    (Returned /\ sent # <<>> /\ ~firstResp.err /\ firstResp.StatusCode = StatusFound) =>
        /\ w.status = StatusFound
        /\ hGet(w.sent, "Location") = firstResp.Location
        /\ w.body = <<>>
        /\ Len(sent) = 1

\* C3 (amended): the same for the JSON and XML pipelines.
C3_RedirectStructured ==
    (Structured /\ Returned /\ sent # <<>> /\ ~firstResp.err
        /\ firstResp.StatusCode = StatusFound) =>
        /\ w.status = StatusFound
        /\ hGet(w.sent, "Location") = firstResp.Location
        /\ w.body = <<>>
        /\ w.superfluous = 0
        /\ ~respBody.read
        /\ Len(sent) = 1
C3_Witness ==
    /\ Returned /\ format = "XML" /\ ~resp.err /\ resp.StatusCode = StatusFound
    /\ resp.Location = "https://x/y" /\ hGet(w.sent, "Location") = "https://x/y"

\* C4: JSON and XML pipelines, backend 200 with a body that decodes: the
\* client gets status 200 and Content-Type JSONHeader, and (when the write to
\* the client goes through) the body is the JSON encoding of the decoded
\* value; for JSON it decodes to the same value as the backend's body.
C4_SuccessTranscoded ==
    (Structured /\ Answered /\ resp.StatusCode = StatusOK
        /\ Decoded(format, contents).ok) =>
        /\ w.status = StatusOK
        /\ hGet(w.sent, "Content-Type") = JSONHeader
        /\ connOk =>
            /\ w.body = jsonMarshal(Decoded(format, contents).val) \o <<"\n">>
            /\ format = "JSON" =>
                /\ jsonUnmarshal(w.body).ok
                /\ jsonUnmarshal(w.body).val = jsonUnmarshal(contents).val
            /\ format = "XML" => w.body = <<"n", "u", "l", "l", "\n">>
C4_Witness ==
    /\ Answered /\ format = "JSON" /\ resp.StatusCode = StatusOK /\ connOk
    /\ contents = <<"\"", "<", "\"">>
    /\ w.body = <<"\"", "\\", "u", "0", "0", "3", "c", "\"", "\n">>

\* C5 (as claimed): backend status s other than 200 and 302: the client gets
\* status s, and in the JSON and XML pipelines the body is the JSON encoding
\* of the error body decoded with the pipeline's decoder.
C5_FailureAnyStatus ==
    (Answered /\ connOk /\ resp.StatusCode \notin {StatusOK, StatusFound}) =>
        /\ w.status = resp.StatusCode
        /\ Structured => w.body = jsonMarshal(Decoded(format, contents).val) \o <<"\n">>

\* C5 (amended): the status is s in every case; the body is the transcoded
\* error body when s permits a body and the write to the client succeeds.
C5_FailurePropagated ==
    (Answered /\ resp.StatusCode \notin {StatusOK, StatusFound}) =>
        /\ w.status = resp.StatusCode
        /\ (Structured /\ connOk /\ bodyAllowedForStatus(resp.StatusCode)) =>
                w.body = jsonMarshal(Decoded(format, contents).val) \o <<"\n">>
C5_Witness ==
    /\ Answered /\ format = "JSON" /\ connOk
    /\ resp.StatusCode = 500
    /\ contents = <<"{", "\"", "a", "\"", ":", "1", "}">>
    /\ w.status = 500
    /\ w.body = <<"{", "\"", "a", "\"", ":", "1", "}", "\n">>

\* C6: RAW is the identity in both directions whatever the backend status:
\* the backend gets the client's bytes (up to the raw ceiling), the client
\* gets the backend's bytes and the backend's Content-Type.
C6_RawIdentity ==
    (format = "RAW" /\ Answered /\ ~resp.readErr /\ connOk) =>
        /\ sent[1].Body = Take(r.Body, MaxFileUploadSize)
        /\ w.body = resp.Body
        /\ hGet(w.sent, "Content-Type") = resp.ContentType

\* C7: the outbound request carries every inbound header unchanged, except
\* Content-Type, which is JSONHeader for JSON, XMLHeader for XML and the
\* inbound one for RAW (Authorization is left to C8).
C7_HeadersPropagated ==
    req.built =>
        /\ \A k \in HeaderKeys \ {"Content-Type", "Authorization"} :
                req.Header[k] = r.Header[k]
        /\ format = "JSON" => req.Header["Content-Type"] = <<JSONHeader>>
        /\ format = "XML" => req.Header["Content-Type"] = <<XMLHeader>>
        /\ format = "RAW" => req.Header["Content-Type"] = r.Header["Content-Type"]

\* C8: with an empty token the outbound Authorization is the inbound one
\* (absent when absent); with a token it is exactly the token.  Holds of the
\* request built and of the request the backend receives.
C8_Authorization ==
    LET want == IF token = "" THEN r.Header["Authorization"] ELSE <<token>>
    IN  /\ req.built => req.Header["Authorization"] = want
        /\ sent # <<>> => sent[1].Header["Authorization"] = want
C8_Witness ==
    /\ sent # <<>> /\ token = "" /\ r.Header["Authorization"] = <<"Basic in">>
    /\ sent[1].Header["Authorization"] = <<"Basic in">>

\* C9: an unsupported format tag never causes I/O (the inbound body is not
\* read, no request is built or sent), and a call that passed request
\* preprocessing returns with a 422 response and an error event.
C9_UnsupportedFormat ==
    (format \notin {"JSON", "XML", "RAW"}) =>
        /\ ~inBody.read /\ inBody.consumed = 0 /\ ~inBody.closed
        /\ ~req.built /\ sent = <<>>
        /\ pc \in {"PUT", "done"}
        /\ (Returned /\ ~preprocessing_err) =>
            /\ w.status = StatusUnprocessableEntity
            /\ logs # <<>> /\ logs[1] = "ERR"
            /\ connOk => w.body = InvalidBody("\"Specfically\":", "\"Unsupported data encoding\"")
C9_Witness ==
    /\ format = "FORM" /\ Returned /\ ~preprocessing_err /\ connOk
    /\ w.status = StatusUnprocessableEntity /\ r.Body # <<>>

\* C10: for an inbound body longer than the ceiling of the pipeline, at most
\* the ceiling is read from the inbound stream and no request body built for
\* or sent to the backend is longer than the ceiling.
C10_Ceiling ==
    Len(r.Body) > CeilingOf(format) =>
        /\ inBody.consumed <= CeilingOf(format)
        /\ Len(req.Body) <= CeilingOf(format)
        /\ \A i \in DOMAIN sent : Len(sent[i].Body) <= CeilingOf(format)

\* C11: whenever the call returns after client.Do gave it a response, on
\* whichever path, resp.Body has been closed.
C11_RespBodyClosed ==
    Answered => respBody.closed

\* C12: once the read of the inbound body was started, r.Body is closed by
\* the time the call returns, also when the read itself failed; a failed
\* close gives a 422 response.
C12_InBodyClosed ==
    (Returned /\ inBody.read) =>
        /\ inBody.closed
        /\ inBody.closeErr => w.status = StatusUnprocessableEntity

\* The requests of the call that are PUTs.
Puts == {i \in DOMAIN sent : sent[i].method = "PUT"}

C13_OneAttempt ==
    /\ Cardinality(Puts) <= 1
    /\ \A i \in DOMAIN sent : i > 1 => sent[i].method = "GET" /\ format = "RAW"
    /\ Structured => Len(sent) <= 1
    /\ Len(sent) <= 1 + hops
    /\ Len(sent) > 1 => firstResp.StatusCode = StatusFound /\ firstResp.Location # ""
C14_Cors ==
    w.wroteHeader =>
        LET origin == hGet(r.Header, "Origin")
        IN  IF origin # ""
            THEN /\ w.sent["Access-Control-Allow-Origin"] = <<origin>>
                 /\ w.sent["Access-Control-Allow-Methods"] = <<"PUT">>
                 /\ w.sent["Access-Control-Allow-Headers"] = <<AllowHeaders>>
            ELSE /\ w.sent["Access-Control-Allow-Origin"] = <<>>
                 /\ w.sent["Access-Control-Allow-Methods"] = <<>>
                 /\ w.sent["Access-Control-Allow-Headers"] = <<>>
C14_Witness ==
    /\ Returned /\ sent # <<>> /\ resp.err /\ format = "RAW"
    /\ r.Header["Origin"] = <<"https://app">>
    /\ w.sent["Access-Control-Allow-Origin"] = <<"https://app">>

Has(bs, tok) == \E i \in DOMAIN bs : bs[i] = tok

\* A failure of the engine's own processing: nothing was sent (unsupported
\* format, inbound read or close failure, request decode or encode failure),
\* client.Do failed, or a 200 body did not decode.
LocalFailure ==
    /\ Returned /\ ~preprocessing_err
    /\ \/ sent = <<>>
       \/ resp.err
       \/ Structured /\ resp.StatusCode = StatusOK /\ ~Decoded(format, contents).ok

\* C15: every local processing failure gives the client status 422, the JSON
\* content type and a JSON object with the keys Code (422), Text and
\* Specifically.
C15_InvalidResponse ==
    (LocalFailure /\ connOk) =>
        /\ w.status = StatusUnprocessableEntity
        /\ hGet(w.sent, "Content-Type") = JSONHeader
        /\ Has(w.body, "\"Code\":") /\ Has(w.body, "422")
        /\ Has(w.body, "\"Text\":")
        /\ Has(w.body, "\"Specifically\":")

\* A failure was detected during the call: unsupported format, inbound read
\* or close error, request decode failure, http.NewRequest error, transport
\* error, or an error while reading resp.Body.
FailureDetected ==
    /\ ~preprocessing_err
    /\ \/ pc = "done" /\ unsupportedFormat(format) /\ format # "RAW"
       \/ inBody.readErr
       \/ inBody.closeErr
       \/ Structured /\ pc = "done" /\ inBody.closed /\ ~inBody.closeErr
            /\ ~jsonUnmarshal(content).ok
       \/ pc = "panic"
       \/ sent # <<>> /\ resp.err /\ pc = "done"
       \/ respBody.read /\ resp.readErr

\* C16: every failure detected during a call has, by the end of the call,
\* produced a response to the client and an error event; this includes the
\* error of http.NewRequest and an error while reading resp.Body.
C16_FailuresHandled ==
    (Terminated /\ FailureDetected) => (w.wroteHeader /\ Has(logs, "ERR"))

\* The call forwarded the request and relayed a 200 answer of the backend.
Success ==
    /\ Answered /\ resp.StatusCode = StatusOK
    /\ IF Structured THEN Decoded(format, contents).ok ELSE ~resp.readErr

\* C17: a call that returns with any outcome but success has emitted exactly
\* one event through logger.Log.
C17_OneEvent ==
    (Returned /\ ~preprocessing_err /\ connOk /\ ~Success) => Len(logs) = 1

\* C18: when the call has ended, a response has been written to the client.
C18_ResponseWritten ==
    Terminated => w.wroteHeader

\* The inbound body was read and closed without error and, in the JSON and
\* XML pipelines, decoded into data.
InboundDone ==
    /\ inBody.read /\ ~inBody.readErr
    /\ inBody.closed /\ ~inBody.closeErr
    /\ Structured => (jsonUnmarshal(content).ok /\ data = jsonUnmarshal(content).val)

\* C19: the stages run in the order read, close, decode, build, invoke,
\* translate: the inbound body is closed only after it was read, the
\* outbound request is built and sent only after the inbound body was read,
\* closed and (JSON/XML) decoded without error, the backend's answer is
\* read only after the request was sent, and when the read, the close or
\* the decode fails no request is built or sent.
C19_StageOrder ==
    /\ inBody.closed => inBody.read
    /\ (req.built \/ sent # <<>>) => InboundDone
    /\ sent # <<>> => req.built
    /\ (respBody.read \/ logResp > 0) => sent # <<>>
    /\ (\/ inBody.readErr
        \/ inBody.closeErr
        \/ Structured /\ inBody.closed /\ ~jsonUnmarshal(content).ok)
            => (~req.built /\ sent = <<>>)
C19_Witness ==
    /\ Returned /\ format = "XML" /\ sent # <<>> /\ ~resp.err
    /\ inBody.closed /\ content # <<>> /\ respBody.read

\* C20: every response of the JSON and XML pipelines that carries a body was
\* committed with the JSON content type (the body of each of them is
\* JSON-encoded: 200 success, other-status failure, 422 local failure).
C20_JsonContentType ==
    (Structured /\ Returned /\ ~preprocessing_err /\ w.body # <<>>) =>
        hGet(w.sent, "Content-Type") = JSONHeader

====
